---------------------------- MODULE Spec2Model ----------------------------
(***************************************************************************)
(* Model of the WebGL direct-volume-rendering demo.                        *)
(*                                                                         *)
(*   Spec           the VolumeRenderer object (js/volumerenderer.js) with  *)
(*                  the part of the WebGL context state its calls read and *)
(*                  write, followed for one screen pixel.  draw() is one   *)
(*                  JavaScript call that runs to completion: its GL calls  *)
(*                  are taken one group at a time (pc), and no other       *)
(*                  handler runs while pc # "idle".                        *)
(*   SpecIntegrate  the loop of integrateVolume (volume-fs).               *)
(*   SpecSample     sampleVolume (volume-fs) applied to bounded inputs.    *)
(*                                                                         *)
(* Shader floats are fixed-point numbers in thousandths (Scale), rounded   *)
(* to nearest as float arithmetic rounds.                                  *)
(***************************************************************************)
EXTENDS Integers, Sequences, FiniteSets, TLC

VARIABLES
    \* ---- VolumeRenderer fields (volumerenderer.js 275-285)
    gl, canvas, anim, shaders, framebuffers, viewportQuad, domainCube,
    volumes,            \* per initVolumeGeometry call: its arguments (the onload closure), its Image and
                        \* its texture; the last one is this.textures.volume and the global `texture`
    \* ---- WebGL context state
    currentProgram, boundFramebuffer, activeTexture, texUnits, uniforms,
    depthFunc, clearDepth, depthBuf,
    exitPix, entryPix, screenPix,   \* the followed pixel in the two targets and on the canvas
    \* ---- position inside draw() and the frame's inputs
    pc, ray,
    \* ---- what was called and what it did
    lastCall, initResult, drawCalls, passLog, frameInfo,
    \* ---- integrateVolume (SpecIntegrate)
    ipc, icolor, idepth, iiter, ithickness,
    \* ---- sampleVolume (SpecSample)
    spc, sArgs, sOut

rendererVars == <<gl, canvas, anim, shaders, framebuffers, viewportQuad, domainCube,
                  volumes>>
glVars == <<currentProgram, boundFramebuffer, activeTexture, texUnits, uniforms,
            depthFunc, clearDepth, depthBuf, exitPix, entryPix, screenPix>>
drawVars == <<pc, ray>>
logVars == <<lastCall, initResult, drawCalls, passLog, frameInfo>>
integrateVars == <<ipc, icolor, idepth, iiter, ithickness>>
sampleVars == <<spc, sArgs, sOut>>
vars == <<rendererVars, glVars, drawVars, logVars, integrateVars, sampleVars>>

----------------------------------------------------------------------------
\* Bounds of the model.

\* draw() calls that reach the passes
MaxFrames == 2
\* initVolumeGeometry calls on an initialized renderer
MaxVolumeCalls == 2
\* largest uNumSlices tried on sampleVolume
MaxSlices == 5
\* largest uSlicesPerRow tried on sampleVolume
MaxPerRow == 3

\* Fixed-point unit: 1.0 is Scale thousandths.
Scale == 10 * 10 * 10

----------------------------------------------------------------------------
\* Values of the model.

NullTex == <<"null", 0>>
ExitTex == <<"fbTexture", 1>>
EntryTex == <<"fbTexture", 2>>
VolTex(k) == <<"volume", k>>

\* JavaScript's number division: x / 0 is Infinity (NaN for 0 / 0).
JsDiv(x, y) ==
    IF y # 0 THEN [k |-> "num", n |-> x, d |-> y]
    ELSE IF x # 0 THEN [k |-> "Infinity", n |-> x, d |-> 0]
    ELSE [k |-> "NaN", n |-> 0, d |-> 0]

Zero == [k |-> "num", n |-> 0, d |-> 1]

NoCube == [built |-> FALSE, sliceWidth |-> 0, sliceHeight |-> 0, slices |-> 0,
           slicesPerRow |-> 0, cubeDimensions |-> [w |-> Zero, h |-> Zero, d |-> Zero]]

\* new VolumeCubeDomain(gl, sliceWidth, sliceHeight, slices, slicesPerRow): no
\* argument is tested before the divisions.
VolumeCubeDomain(sliceWidth, sliceHeight, slices, slicesPerRow) ==
    [built |-> TRUE, sliceWidth |-> sliceWidth, sliceHeight |-> sliceHeight,
     slices |-> slices, slicesPerRow |-> slicesPerRow,
     cubeDimensions |-> [w |-> [k |-> "num", n |-> 1, d |-> 1],
                         h |-> JsDiv(sliceHeight, sliceWidth),
                         d |-> JsDiv(slices, sliceWidth)]]

\* A pixel is an rgba value; the entry and exit targets hold the object-space
\* position of the ray's end, followed as one coordinate along the ray that is
\* stored in r, g and b.
Transparent == [r |-> 0, g |-> 0, b |-> 0, a |-> 0]

DefaultUniforms ==
    [uEntryPointsSampler |-> 0, uExitPointsSampler |-> 0, uVolumeTexture |-> 0,
     uNumSlices |-> 0, uSlicesPerRow |-> 0, uSliceWidth |-> Zero, uSliceHeight |-> Zero]

\* Arguments given to initVolumeGeometry: the page's own call (part_000 196) and
\* a degenerate one.
VolumeArgs ==
    { [sliceWidth |-> 128, sliceHeight |-> 128, slices |-> 114, slicesPerRow |-> 11],
      [sliceWidth |-> 0,   sliceHeight |-> 128, slices |-> 1,   slicesPerRow |-> 0] }

\* Pixel size of a decoded atlas image.
ImageDims == { [width |-> 1408, height |-> 1408] }

\* What the followed pixel's view ray meets in a frame: nothing, a corner of
\* the cube (entry = exit), or a segment of the cube.
Rays == { [hit |-> FALSE, near |-> 0, far |-> 0],
          [hit |-> TRUE, near |-> 400, far |-> 400],
          [hit |-> TRUE, near |-> 100, far |-> 300] }

\* Red-channel values a texture fetch can return.
Samples == {0, 300, 1000}

ShaderSources == {"ok", "compileFail", "linkFail"}


----------------------------------------------------------------------------
\* volume-fs: the transfer function and the compositing step of integrateVolume.

\* x / d rounded to nearest, for x >= 0.
RoundDiv(x, d) == (2 * x + d) \div (2 * d)

\* float step = 0.01
Step == 10
\* color.a > 0.98
AlphaCutoff == 980
\* for (int i = 0; i < 10000; ++i)
LoopCap == 10000
\* if (sample > 0.35)
TintThreshold == 350
\* entryPoint.a < 0.1 || exitPoint.a < 0.1
MissAlpha == 100

\* tfOpacity = 1 - exp(-step * tfAbsorbtion * 40) with tfAbsorbtion =
\* pow(sample, 1.1), set to 0 below 0.05: tabulated in thousandths at the
\* sample values of the model.
TfOpacity(sample) ==
    CASE sample = 0 -> 0
      [] sample = 50 -> 0
      [] sample = 100 -> 31
      [] sample = 200 -> 66
      [] sample = 300 -> 101
      [] sample = 350 -> 118
      [] sample = 500 -> 170
      [] sample = 800 -> 269
      [] sample = 1000 -> 330

\* vec3 sampleColor = vec3(sample); red is 0.6 above the threshold, else blue + 0.1
SampleColor(sample) ==
    IF sample > TintThreshold
    THEN [r |-> 600, g |-> sample, b |-> sample]
    ELSE [r |-> sample, g |-> sample, b |-> sample + 100]

\* The composite step: color.rgb = sampleColor * tfOpacity * (1 - color.a) + color.rgb;
\* color.a = tfOpacity * (1 - color.a) + color.a
CompositeStep(color, sample) ==
    LET t == TfOpacity(sample)
        sc == SampleColor(sample)
        w == t * (Scale - color.a)
    IN  [r |-> color.r + RoundDiv(sc.r * w, Scale * Scale),
         g |-> color.g + RoundDiv(sc.g * w, Scale * Scale),
         b |-> color.b + RoundDiv(sc.b * w, Scale * Scale),
         a |-> color.a + RoundDiv(w, Scale)]

\* Mutant of LoopBreaks: the early termination on alpha is missing.
LoopBreaksOnDepthOnly(depth, thickness, color) ==
    depth > thickness

\* if (depth > thickness || color.a > 0.98) break;
LoopBreaks(depth, thickness, color) ==
    depth > thickness \/ color.a > AlphaCutoff

\* integrateVolume along a ray on which every fetch returns `sample`.
RECURSIVE IntegrateFrom(_, _, _, _, _)
IntegrateFrom(color, depth, i, thickness, sample) ==
    IF i >= LoopCap \/ LoopBreaks(depth, thickness, color)
    THEN color
    ELSE IntegrateFrom(CompositeStep(color, sample), depth + Step, i + 1, thickness, sample)

IntegrateVolume(entryPoint, exitPoint, sample) ==
    LET d == exitPoint.r - entryPoint.r
        thickness == IF d < 0 THEN -d ELSE d
    IN  IntegrateFrom(Transparent, 0, 0, thickness, sample)

\* volume-fs main(): a miss writes vec4(0), a hit the integral.
VolumeFsMain(entryPoint, exitPoint, sample) ==
    IF entryPoint.a < MissAlpha \/ exitPoint.a < MissAlpha
    THEN Transparent
    ELSE IntegrateVolume(entryPoint, exitPoint, sample)

----------------------------------------------------------------------------
\* The renderer: construction and initialization.

Units == 0 .. 2
OtherUnchanged == UNCHANGED <<integrateVars, sampleVars>>

\* The texture this.textures.volume (and the global `texture`) refers to.
Latest == Len(volumes)
VolumeIsLoaded == Latest > 0 /\ volumes[Latest].isLoaded

\* new ShaderProgram(gl, vs, fs).  A shader that does not compile is alerted
\* and null; attachShader(program, null) throws a TypeError or records a GL
\* error, by the browser's bindings; a program that does not link is alerted
\* and deleted, and the constructor returns.
ShaderProgram(source, nullArgThrows) ==
    IF source = "compileFail"
    THEN IF nullArgThrows THEN "throw" ELSE "deleted"
    ELSE IF source = "linkFail" THEN "deleted" ELSE "linked"

\* gl.useProgram(p.program): a deleted program is refused and the program in
\* use stays.
UseProgram(name) ==
    IF shaders[name] = "linked" THEN name ELSE currentProgram

\* gl.uniform1i / uniform1f through a location of the volume program: it takes
\* effect only while that program is the one in use (the location of a deleted
\* program is null and the call does nothing).
SetUniform(u, program, name, val) ==
    IF program = "volume" THEN [u EXCEPT ![name] = val] ELSE u

\* Mutant of ContextAfterInit: the catch block does not reset this.gl.
ContextKeptOnFailure(ctx, ok) == IF ctx THEN "ctx" ELSE "null"

\* this.gl when initGL returns: the context, or null once the catch block ran
ContextAfterInit(ctx, ok) == IF ok THEN "ctx" ELSE "null"

InitRenderer ==
    /\ gl = "null" /\ canvas = "null" /\ anim = "null"
    /\ shaders = [entryExitPoints |-> "unset", volume |-> "unset"]
    /\ framebuffers = "unset" /\ viewportQuad = "null"
    /\ domainCube = NoCube
    /\ volumes = <<>>
    /\ currentProgram = "none"
    /\ boundFramebuffer = "default"
    /\ activeTexture = 0
    /\ texUnits = [u \in Units |-> NullTex]
    /\ uniforms = DefaultUniforms
    /\ depthFunc = "LESS" /\ clearDepth = Scale
    /\ depthBuf = [f \in {"default", "exitpoints", "entrypoints"} |-> Scale]
    /\ exitPix = Transparent /\ entryPix = Transparent /\ screenPix = Transparent
    /\ pc = "idle"
    /\ ray = [hit |-> FALSE, near |-> 0, far |-> 0]
    /\ lastCall = "none"
    /\ initResult = [called |-> FALSE, ok |-> FALSE, ctx |-> FALSE, ext |-> FALSE,
                     eeFailed |-> FALSE, volFailed |-> FALSE]
    /\ drawCalls = 0
    /\ passLog = <<>>

NoFrame == [drawn |-> FALSE, loaded |-> FALSE, atlasBound |-> FALSE,
            sampled |-> FALSE, source |-> NullTex, program |-> "none"]

IntegrateIdle ==
    /\ ipc = "off" /\ icolor = Transparent /\ idepth = 0 /\ iiter = 0 /\ ithickness = 0

SampleIdle ==
    /\ spc = "off"
    /\ sArgs = [uNumSlices |-> 0, uSlicesPerRow |-> 0, z |-> 0, texels |-> 0]
    /\ sOut = [sliceBelow |-> 0, sliceAbove |-> 0, belowTile |-> <<0, 0>>,
               aboveTile |-> <<0, 0>>, num |-> 0]

Init ==
    /\ InitRenderer
    /\ frameInfo = NoFrame
    /\ IntegrateIdle
    /\ SampleIdle

\* initGL(canvas), called once by the page (part_000 191).
InitGL ==
    /\ pc = "idle"
    /\ ~initResult.called
    /\ \E ctx \in BOOLEAN, ext \in BOOLEAN, nullArgThrows \in BOOLEAN,
          eeSource \in ShaderSources, volSource \in ShaderSources :
         LET ee == ShaderProgram(eeSource, nullArgThrows)
             vol == ShaderProgram(volSource, nullArgThrows)
             shadersRun == ctx /\ ext
             ok == shadersRun /\ ee # "throw" /\ vol # "throw"
         IN  /\ gl' = ContextAfterInit(ctx, ok)
             /\ canvas' = IF ok THEN "canvas" ELSE "null"
             /\ anim' = IF ctx THEN "set" ELSE anim
             /\ shaders' =
                  IF ~shadersRun \/ ee = "throw" THEN shaders
                  ELSE IF vol = "throw" THEN [shaders EXCEPT !.entryExitPoints = ee]
                  ELSE [entryExitPoints |-> ee, volume |-> vol]
             /\ framebuffers' = IF ok THEN "created" ELSE framebuffers
             /\ viewportQuad' = IF ok THEN "quad" ELSE viewportQuad
             /\ initResult' = [called |-> TRUE, ok |-> ContextAfterInit(ctx, ok) # "null", ctx |-> ctx, ext |-> ext,
                               eeFailed |-> shadersRun /\ eeSource # "ok",
                               volFailed |-> shadersRun /\ ee # "throw" /\ volSource # "ok"]
    /\ lastCall' = "initGL"
    /\ UNCHANGED <<domainCube, volumes, glVars, drawVars, drawCalls, passLog, frameInfo>>
    /\ OtherUnchanged

\* initVolumeGeometry(volumeTexture, sliceWidth, sliceHeight, slices, slicesPerRow)
InitVolumeGeometry ==
    /\ pc = "idle"
    /\ \E a \in VolumeArgs :
         IF gl = "null"
         THEN UNCHANGED <<domainCube, volumes>>
         ELSE /\ Len(volumes) < MaxVolumeCalls
              /\ domainCube' = VolumeCubeDomain(a.sliceWidth, a.sliceHeight, a.slices, a.slicesPerRow)
              /\ volumes' = Append(volumes,
                     [args |-> a, complete |-> FALSE, width |-> 0, height |-> 0,
                      isLoaded |-> FALSE, hasData |-> FALSE])
    /\ lastCall' = "initVolumeGeometry"
    /\ UNCHANGED <<gl, canvas, anim, shaders, framebuffers, viewportQuad>>
    /\ UNCHANGED <<glVars, drawVars, initResult, drawCalls, passLog, frameInfo>>
    /\ OtherUnchanged

\* texture.image.onload of the j-th image.  `texture` is a global: the handler
\* works on the texture of the latest initVolumeGeometry call, with the
\* slices, slicesPerRow, sliceWidth and sliceHeight of its own call.
OnLoad(j) ==
    /\ pc = "idle"
    /\ j \in 1 .. Len(volumes)
    /\ ~volumes[j].complete
    /\ \E dim \in ImageDims :
         LET loaded == [volumes EXCEPT ![j].complete = TRUE,
                                       ![j].width = dim.width,
                                       ![j].height = dim.height]
             img == loaded[Latest]
             a == volumes[j].args
             u1 == SetUniform(uniforms, currentProgram, "uNumSlices", a.slices)
             u2 == SetUniform(u1, currentProgram, "uSlicesPerRow", a.slicesPerRow)
             u3 == SetUniform(u2, currentProgram, "uSliceWidth", JsDiv(a.sliceWidth, img.width))
             u4 == SetUniform(u3, currentProgram, "uSliceHeight", JsDiv(a.sliceHeight, img.height))
         IN  /\ volumes' = [loaded EXCEPT ![Latest].isLoaded = TRUE,
                                          ![Latest].hasData = @ \/ img.complete]
             /\ uniforms' = u4
    /\ texUnits' = [texUnits EXCEPT ![activeTexture] = NullTex]
    /\ lastCall' = "onload"
    /\ UNCHANGED <<gl, canvas, anim, shaders, framebuffers, viewportQuad, domainCube>>
    /\ UNCHANGED <<currentProgram, boundFramebuffer, activeTexture, depthFunc, clearDepth,
                   depthBuf, exitPix, entryPix, screenPix>>
    /\ UNCHANGED <<drawVars, initResult, drawCalls, passLog, frameInfo>>
    /\ OtherUnchanged

----------------------------------------------------------------------------
\* draw(): GL helpers.

\* The color attachment of a FrameBuffer object.
FbTexture(fb) == IF fb = "exitpoints" THEN ExitTex ELSE EntryTex

\* gl.clearDepth clamps its argument to [0, 1].
ClampDepth(d) == IF d < 0 THEN 0 ELSE IF d > Scale THEN Scale ELSE d

\* What texture2D returns at the followed pixel from a texture unit; a unit
\* with no texture, or a texture with no image data, reads (0, 0, 0, 1).
OpaqueBlack == [r |-> 0, g |-> 0, b |-> 0, a |-> Scale]
HasTexels(tex) ==
    \/ tex \in {ExitTex, EntryTex}
    \/ tex[1] = "volume" /\ volumes[tex[2]].hasData
TexFetch(unit) ==
    LET tex == texUnits[unit]
    IN  IF tex = ExitTex THEN exitPix
        ELSE IF tex = EntryTex THEN entryPix
        ELSE OpaqueBlack

\* The texture sampleVolume reads, and the red values it can read there.
VolumeSource == texUnits[uniforms.uVolumeTexture]
VolumeSamples == IF HasTexels(VolumeSource) THEN Samples ELSE {0}

\* WebGL refuses a draw call (INVALID_OPERATION) when the program in use
\* samples the texture attached to the bound framebuffer.  Only the volume
\* program has samplers.
FeedbackLoop ==
    /\ boundFramebuffer # "default"
    /\ currentProgram = "volume"
    /\ \E name \in {"uEntryPointsSampler", "uExitPointsSampler", "uVolumeTexture"} :
         texUnits[uniforms[name]] = FbTexture(boundFramebuffer)

\* The depth test of a fragment strictly inside the depth range against the
\* cleared depth buffer of the bound framebuffer.
DepthTestPasses ==
    \/ depthFunc = "GREATER" /\ depthBuf[boundFramebuffer] < Scale
    \/ depthFunc = "LESS" /\ depthBuf[boundFramebuffer] > 0

\* entry-exitpoints-fs on the cube: gl_FragColor = vec4(vObjectspacePos, 1.0),
\* of the farthest face under GREATER and of the nearest under LESS.
EntryExitFs ==
    LET p == IF depthFunc = "GREATER" THEN ray.far ELSE ray.near
    IN  [r |-> p, g |-> p, b |-> p, a |-> Scale]

\* The values the followed pixel of the bound framebuffer can have after a
\* draw call of `geometry` ("cube" or "quad") with the program in use.  A
\* program run on the other pass's geometry (possible only after a failed
\* link) covers the pixel or not.
DrawnPixels(old, geometry) ==
    IF currentProgram = "none" \/ FeedbackLoop \/ ~DepthTestPasses THEN {old}
    ELSE IF currentProgram = "entryExitPoints"
    THEN IF geometry = "cube"
         THEN IF ray.hit THEN {EntryExitFs} ELSE {old}
         ELSE {old, [r |-> Scale \div 2, g |-> Scale \div 2, b |-> Scale \div 2, a |-> Scale]}
    ELSE LET entryPoint == TexFetch(uniforms.uEntryPointsSampler)
             exitPoint == TexFetch(uniforms.uExitPointsSampler)
             out == { VolumeFsMain(entryPoint, exitPoint, v) : v \in VolumeSamples }
         IN  IF geometry = "quad" THEN out ELSE out \cup {old}

BoundPixel ==
    IF boundFramebuffer = "exitpoints" THEN exitPix
    ELSE IF boundFramebuffer = "entrypoints" THEN entryPix
    ELSE screenPix

StorePixel(val) ==
    /\ exitPix' = IF boundFramebuffer = "exitpoints" THEN val ELSE exitPix
    /\ entryPix' = IF boundFramebuffer = "entrypoints" THEN val ELSE entryPix
    /\ screenPix' = IF boundFramebuffer = "default" THEN val ELSE screenPix

\* gl.clear(gl.COLOR_BUFFER_BIT | gl.DEPTH_BUFFER_BIT) on framebuffer fb, with
\* clearColor (0, 0, 0, 0) and clear depth d.
ClearBuffers(fb, d) ==
    /\ exitPix' = IF fb = "exitpoints" THEN Transparent ELSE exitPix
    /\ entryPix' = IF fb = "entrypoints" THEN Transparent ELSE entryPix
    /\ screenPix' = IF fb = "default" THEN Transparent ELSE screenPix
    /\ depthBuf' = [depthBuf EXCEPT ![fb] = d]

\* FrameBuffer.attach
Attach(fb) == boundFramebuffer' = fb

\* Mutant of Detach: the default framebuffer is not bound again.
DetachKeepsFramebuffer ==
    /\ texUnits' = [texUnits EXCEPT ![activeTexture] = NullTex]
    /\ UNCHANGED boundFramebuffer

\* FrameBuffer.detach: unbinds the texture of the active unit and binds the
\* default framebuffer.
Detach ==
    /\ texUnits' = [texUnits EXCEPT ![activeTexture] = NullTex]
    /\ boundFramebuffer' = "default"

\* gl.activeTexture(gl.TEXTURE0 + unit); FrameBuffer.bindAsTexture
BindAsTexture(unit, fb) ==
    /\ activeTexture' = unit
    /\ texUnits' = [texUnits EXCEPT ![unit] = FbTexture(fb)]

LogPass(pass) ==
    passLog' = Append(passLog, [frame |-> drawCalls, pass |-> pass,
                                target |-> boundFramebuffer])

Finite(x) == x.k = "num"

----------------------------------------------------------------------------
\* draw(), in the order of its statements.

RendererUnchanged == UNCHANGED rendererVars

\* 433-442: the guard, program.use() and _setMatrices, which reads
\* this.domainCube.cubeDimensions and throws a TypeError while no domain cube
\* was built.  A cube of non-finite extents rasterizes nothing.
DrawBegin ==
    /\ pc = "idle"
    /\ lastCall' = "draw"
    /\ IF gl = "null"
       THEN UNCHANGED <<glVars, drawVars, drawCalls, passLog, frameInfo>>
       ELSE /\ currentProgram' = UseProgram("entryExitPoints")
            /\ UNCHANGED <<boundFramebuffer, activeTexture, texUnits, uniforms, depthFunc,
                           clearDepth, depthBuf, exitPix, entryPix, screenPix>>
            /\ IF ~domainCube.built
               THEN UNCHANGED <<drawVars, drawCalls, passLog, frameInfo>>
               ELSE /\ drawCalls < MaxFrames
                    /\ drawCalls' = drawCalls + 1
                    /\ \E r \in Rays :
                         /\ r.hit => /\ Finite(domainCube.cubeDimensions.h)
                                     /\ Finite(domainCube.cubeDimensions.d)
                         /\ ray' = r
                    /\ pc' = "exitAttach"
                    /\ frameInfo' = NoFrame
                    /\ UNCHANGED passLog
    /\ RendererUnchanged /\ UNCHANGED initResult /\ OtherUnchanged

DrawKeeps == RendererUnchanged /\ UNCHANGED <<ray, lastCall, initResult, drawCalls>> /\ OtherUnchanged

\* 445-448: exitpoints.attach(), depthFunc(GREATER), clearDepth(-1), clear
DrawExitAttach ==
    /\ pc = "exitAttach"
    /\ Attach("exitpoints")
    /\ depthFunc' = "GREATER"
    /\ clearDepth' = ClampDepth(-Scale)
    /\ ClearBuffers("exitpoints", ClampDepth(-Scale))
    /\ pc' = "exitRender"
    /\ UNCHANGED <<currentProgram, activeTexture, texUnits, uniforms, passLog, frameInfo>>
    /\ DrawKeeps

\* 450: domainCube.render
DrawExitRender ==
    /\ pc = "exitRender"
    /\ \E val \in DrawnPixels(BoundPixel, "cube") : StorePixel(val)
    /\ LogPass("EXIT_PASS")
    /\ pc' = "exitDetach"
    /\ UNCHANGED <<currentProgram, boundFramebuffer, activeTexture, texUnits, uniforms,
                   depthFunc, clearDepth, depthBuf, frameInfo>>
    /\ DrawKeeps

\* 451: exitpoints.detach()
DrawExitDetach ==
    /\ pc = "exitDetach"
    /\ Detach
    /\ pc' = "entryAttach"
    /\ UNCHANGED <<currentProgram, activeTexture, uniforms, depthFunc, clearDepth, depthBuf,
                   exitPix, entryPix, screenPix, passLog, frameInfo>>
    /\ DrawKeeps

\* Mutant of DrawEntryAttach: entrypoints.attach() is missing, and the clear
\* goes to the framebuffer that is bound.
DrawEntryAttachMissing ==
    /\ pc = "entryAttach"
    /\ depthFunc' = "LESS"
    /\ clearDepth' = ClampDepth(Scale)
    /\ ClearBuffers(boundFramebuffer, ClampDepth(Scale))
    /\ pc' = "entryRender"
    /\ UNCHANGED <<currentProgram, boundFramebuffer, activeTexture, texUnits, uniforms,
                   passLog, frameInfo>>
    /\ RendererUnchanged /\ UNCHANGED <<ray, lastCall, initResult, drawCalls>> /\ OtherUnchanged

\* 454-457: depthFunc(LESS), clearDepth(+1), entrypoints.attach(), clear
DrawEntryAttach ==
    /\ pc = "entryAttach"
    /\ depthFunc' = "LESS"
    /\ clearDepth' = ClampDepth(Scale)
    /\ Attach("entrypoints")
    /\ ClearBuffers("entrypoints", ClampDepth(Scale))
    /\ pc' = "entryRender"
    /\ UNCHANGED <<currentProgram, activeTexture, texUnits, uniforms, passLog, frameInfo>>
    /\ DrawKeeps

\* 459: domainCube.render
DrawEntryRender ==
    /\ pc = "entryRender"
    /\ \E val \in DrawnPixels(BoundPixel, "cube") : StorePixel(val)
    /\ LogPass("ENTRY_PASS")
    /\ pc' = "entryDetach"
    /\ UNCHANGED <<currentProgram, boundFramebuffer, activeTexture, texUnits, uniforms,
                   depthFunc, clearDepth, depthBuf, frameInfo>>
    /\ DrawKeeps

\* 460: entrypoints.detach()
DrawEntryDetach ==
    /\ pc = "entryDetach"
    /\ Detach
    /\ pc' = "integrateUse"
    /\ UNCHANGED <<currentProgram, activeTexture, uniforms, depthFunc, clearDepth, depthBuf,
                   exitPix, entryPix, screenPix, passLog, frameInfo>>
    /\ DrawKeeps

\* 463-467: the volume program, depthFunc(GREATER), clearDepth(-1), clear of
\* the canvas
DrawIntegrateUse ==
    /\ pc = "integrateUse"
    /\ currentProgram' = UseProgram("volume")
    /\ depthFunc' = "GREATER"
    /\ clearDepth' = ClampDepth(-Scale)
    /\ ClearBuffers(boundFramebuffer, ClampDepth(-Scale))
    /\ pc' = "bindEntry"
    /\ UNCHANGED <<boundFramebuffer, activeTexture, texUnits, uniforms, passLog, frameInfo>>
    /\ DrawKeeps

\* 470-471: activeTexture(TEXTURE0); entrypoints.bindAsTexture()
DrawBindEntry ==
    /\ pc = "bindEntry"
    /\ BindAsTexture(0, "entrypoints")
    /\ pc' = "bindExit"
    /\ UNCHANGED <<currentProgram, boundFramebuffer, uniforms, depthFunc, clearDepth, depthBuf,
                   exitPix, entryPix, screenPix, passLog, frameInfo>>
    /\ DrawKeeps

\* 472-473: activeTexture(TEXTURE1); exitpoints.bindAsTexture()
DrawBindExit ==
    /\ pc = "bindExit"
    /\ BindAsTexture(1, "exitpoints")
    /\ pc' = "bindVolume"
    /\ UNCHANGED <<currentProgram, boundFramebuffer, uniforms, depthFunc, clearDepth, depthBuf,
                   exitPix, entryPix, screenPix, passLog, frameInfo>>
    /\ DrawKeeps

\* 475-481: the sampler uniforms, and the atlas on unit 2 when it is loaded
DrawBindVolume ==
    /\ pc = "bindVolume"
    /\ LET u1 == SetUniform(uniforms, currentProgram, "uEntryPointsSampler", 0)
           u2 == SetUniform(u1, currentProgram, "uExitPointsSampler", 1)
       IN  IF VolumeIsLoaded
           THEN /\ activeTexture' = 2
                /\ texUnits' = [texUnits EXCEPT ![2] = VolTex(Latest)]
                /\ uniforms' = SetUniform(u2, currentProgram, "uVolumeTexture", 2)
           ELSE /\ uniforms' = u2
                /\ UNCHANGED <<activeTexture, texUnits>>
    /\ frameInfo' = [frameInfo EXCEPT !.loaded = VolumeIsLoaded, !.atlasBound = VolumeIsLoaded]
    /\ pc' = "quadRender"
    /\ UNCHANGED <<currentProgram, boundFramebuffer, depthFunc, clearDepth, depthBuf,
                   exitPix, entryPix, screenPix, passLog>>
    /\ DrawKeeps

\* Whether the volume program's main() takes the integrateVolume branch at the
\* followed pixel.
Integrates ==
    /\ currentProgram = "volume"
    /\ TexFetch(uniforms.uEntryPointsSampler).a >= MissAlpha
    /\ TexFetch(uniforms.uExitPointsSampler).a >= MissAlpha

\* 482: viewportQuad.render()
DrawQuadRender ==
    /\ pc = "quadRender"
    /\ \E val \in DrawnPixels(BoundPixel, "quad") : StorePixel(val)
    /\ LogPass("INTEGRATE_PASS")
    /\ frameInfo' = [frameInfo EXCEPT !.drawn = TRUE,
                                      !.sampled = Integrates,
                                      !.source = IF Integrates THEN VolumeSource ELSE NullTex,
                                      !.program = currentProgram]
    /\ pc' = "idle"
    /\ UNCHANGED <<currentProgram, boundFramebuffer, activeTexture, texUnits, uniforms,
                   depthFunc, clearDepth, depthBuf>>
    /\ DrawKeeps

Next ==
    \/ InitGL
    \/ InitVolumeGeometry
    \/ \E j \in 1 .. MaxVolumeCalls : OnLoad(j)
    \/ DrawBegin
    \/ DrawExitAttach
    \/ DrawExitRender
    \/ DrawExitDetach
    \/ DrawEntryAttach
    \/ DrawEntryRender
    \/ DrawEntryDetach
    \/ DrawIntegrateUse
    \/ DrawBindEntry
    \/ DrawBindExit
    \/ DrawBindVolume
    \/ DrawQuadRender

Spec == Init /\ [][Next]_vars

----------------------------------------------------------------------------
\* integrateVolume, one loop iteration at a time, over every sequence of
\* sample values (SpecIntegrate).

\* length(exitPoint - entryPoint) of the rays tried.
RayLengths == {0, 50, 150}

\* The loop test, the cap included.
LoopEnds == iiter >= LoopCap \/ LoopBreaks(idepth, ithickness, icolor)

InitIntegrate ==
    /\ InitRenderer
    /\ frameInfo = NoFrame
    /\ SampleIdle
    /\ ipc = "loop"
    /\ icolor = Transparent
    /\ idepth = 0
    /\ iiter = 0
    /\ ithickness \in RayLengths

\* break; return color
IntegrateBreak ==
    /\ ipc = "loop"
    /\ LoopEnds
    /\ ipc' = "done"
    /\ UNCHANGED <<icolor, idepth, iiter, ithickness>>
    /\ UNCHANGED <<rendererVars, glVars, drawVars, logVars, sampleVars>>

\* one iteration: sample, transfer function, composite, depth += step
IntegrateStep ==
    /\ ipc = "loop"
    /\ ~LoopEnds
    /\ \E sample \in Samples : icolor' = CompositeStep(icolor, sample)
    /\ idepth' = idepth + Step
    /\ iiter' = iiter + 1
    /\ UNCHANGED <<ipc, ithickness>>
    /\ UNCHANGED <<rendererVars, glVars, drawVars, logVars, sampleVars>>

NextIntegrate ==
    \/ IntegrateBreak
    \/ IntegrateStep

SpecIntegrate == InitIntegrate /\ [][NextIntegrate]_vars

----------------------------------------------------------------------------
\* sampleVolume on bounded inputs (SpecSample).  pos.z is z / ZDen; the
\* result is kept as a numerator over ZDen, so that no rounding hides a blend.

RECURSIVE Factorial(_)
Factorial(n) == IF n <= 1 THEN 1 ELSE n * Factorial(n - 1)

\* Every slice boundary and every midpoint between slices is on the z grid.
ZDen == 2 * Factorial(MaxSlices - 1)

\* The decoded atlas images tried.
AtlasImages == {1, 2}

\* The red value of the texels of the tile with origin (column, row) in atlas
\* image `img`.
TexelAt(img, tile) == (200 * img + 600 * tile[1] + 130 * tile[2]) % (Scale + 1)

\* floor and ceil of x / d, for d > 0
Floor(x, d) == IF x >= 0 THEN x \div d ELSE -((-x + d - 1) \div d)
Ceil(x, d) == -Floor(-x, d)

\* GLSL mod(x, y) = x - y * floor(x / y)
GlslMod(x, y) == x - y * Floor(x, y)

\* GLSL int / int, for operands that are not negative
IntDiv(x, y) == x \div y

\* Mutant of SliceCoordinate: pos.z is scaled by uNumSlices.
SliceCoordinateBySliceCount(z, uNumSlices) == z * uNumSlices

\* pos.z * float(uNumSlices - 1), as a numerator over ZDen
SliceCoordinate(z, uNumSlices) == z * (uNumSlices - 1)

\* vec2(mod(slice, float(uSlicesPerRow)), float(int(slice) / uSlicesPerRow))
SliceUV(slice, uSlicesPerRow) ==
    <<GlslMod(slice, uSlicesPerRow), IntDiv(slice, uSlicesPerRow)>>

\* float a = sliceAbove - pos.z * float(uNumSlices - 1), as a numerator over ZDen
InterpolationFactor(sliceAbove, z, uNumSlices) ==
    sliceAbove * ZDen - SliceCoordinate(z, uNumSlices)

\* Mutant of Blend: the slice above is not weighted.
BlendUnweightedAbove(valueBelow, valueAbove, a) ==
    valueAbove * ZDen + valueBelow * a

\* valueAbove * (1.0 - a) + valueBelow * a, as a numerator over ZDen
Blend(valueBelow, valueAbove, a) ==
    valueAbove * (ZDen - a) + valueBelow * a

SampleVolume(in) ==
    LET s == SliceCoordinate(in.z, in.uNumSlices)
        sliceBelow == Floor(s, ZDen)
        sliceAbove == Ceil(s, ZDen)
        belowSliceUV == SliceUV(sliceBelow, in.uSlicesPerRow)
        aboveSliceUV == SliceUV(sliceAbove, in.uSlicesPerRow)
        valueBelow == TexelAt(in.texels, belowSliceUV)
        valueAbove == TexelAt(in.texels, aboveSliceUV)
    IN  [sliceBelow |-> sliceBelow, sliceAbove |-> sliceAbove,
         belowTile |-> belowSliceUV, aboveTile |-> aboveSliceUV,
         num |-> IF sliceBelow = sliceAbove
                 THEN valueBelow * ZDen
                 ELSE Blend(valueBelow, valueAbove,
                            InterpolationFactor(sliceAbove, in.z, in.uNumSlices))]

SampleInputs ==
    [uNumSlices : 2 .. MaxSlices, uSlicesPerRow : 1 .. MaxPerRow, z : 0 .. ZDen,
     texels : AtlasImages]

InitSample ==
    /\ InitRenderer
    /\ frameInfo = NoFrame
    /\ IntegrateIdle
    /\ spc = "call"
    /\ sArgs \in SampleInputs
    /\ sOut = [sliceBelow |-> 0, sliceAbove |-> 0, belowTile |-> <<0, 0>>,
               aboveTile |-> <<0, 0>>, num |-> 0]

SampleVolumeCall ==
    /\ spc = "call"
    /\ sOut' = SampleVolume(sArgs)
    /\ spc' = "done"
    /\ UNCHANGED sArgs
    /\ UNCHANGED <<rendererVars, glVars, drawVars, logVars, integrateVars>>

NextSample ==
    \/ SampleVolumeCall

SpecSample == InitSample /\ [][NextSample]_vars

----------------------------------------------------------------------------
\* Properties of the renderer (Spec).

PassOrder == <<"EXIT_PASS", "ENTRY_PASS", "INTEGRATE_PASS">>
PassTarget == <<"exitpoints", "entrypoints", "default">>
IntegratePcs == {"integrateUse", "bindEntry", "bindExit", "bindVolume", "quadRender"}
Targets == {"exitpoints", "entrypoints"}

C2_UnloadedFrameTransparent ==
    ( /\ pc = "idle"
      /\ frameInfo.drawn
      /\ ~frameInfo.loaded
      /\ shaders.entryExitPoints = "linked"
      /\ shaders.volume = "linked" )
    => /\ ~frameInfo.atlasBound
       /\ ~frameInfo.sampled
       /\ screenPix = Transparent

EverythingButLastCall ==
    <<rendererVars, glVars, drawVars, initResult, drawCalls, passLog, frameInfo>>

\* C3: when the context or the float-texture extension is missing, initGL
\* returns false with gl and canvas null, and every later draw() and
\* initVolumeGeometry() changes nothing of the renderer or of the GL state.
C3_FailedInitIsInert ==
    /\ []( (initResult.called /\ ~(initResult.ctx /\ initResult.ext))
           => (~initResult.ok /\ gl = "null" /\ canvas = "null") )
    /\ [][ ( /\ initResult.called
             /\ ~(initResult.ctx /\ initResult.ext)
             /\ lastCall' \in {"draw", "initVolumeGeometry"} )
           => UNCHANGED EverythingButLastCall ]_vars

\* draw() was called after initGL failed for the missing extension.
C3_Witness ==
    /\ initResult.called
    /\ initResult.ctx
    /\ ~initResult.ext
    /\ ~initResult.ok
    /\ lastCall = "draw"

\* C4: a shader that fails to compile or link makes initGL return false with
\* gl null, and no pass is ever issued.
C4_ShaderFailureHaltsInit ==
    (initResult.called /\ (initResult.eeFailed \/ initResult.volFailed))
    => (~initResult.ok /\ gl = "null" /\ passLog = <<>>)

\* No target is the bound framebuffer while its color attachment is bound to
\* a texture unit.
NoAttachedTargetBound ==
    \A fb \in Targets :
        boundFramebuffer = fb => \A u \in Units : texUnits[u] # FbTexture(fb)

\* C5 as claimed: at every moment of every frame, no attached target has its
\* color attachment bound to a sampling slot.
C5_NeverAttachedWhileBound == NoAttachedTargetBound

\* C5 as amended: a target's color attachment is bound to a sampling slot only
\* while no target is attached, and in the first frame no attached target is
\* bound to a slot.
C5_DetachedBeforeBound ==
    /\ [](drawCalls <= 1 => NoAttachedTargetBound)
    /\ [][ \A u \in Units :
             (texUnits'[u] \in {ExitTex, EntryTex} /\ texUnits'[u] # texUnits[u])
             => (boundFramebuffer = "default" /\ boundFramebuffer' = "default") ]_vars

\* In the second frame both targets have just been bound as textures.
C5_Witness ==
    /\ pc = "bindVolume"
    /\ drawCalls = 2
    /\ texUnits[0] = EntryTex
    /\ texUnits[1] = ExitTex
    /\ boundFramebuffer = "default"

\* C6: after a frame, a pixel whose entry or exit alpha is below 0.1 is
\* (0, 0, 0, 0) on the canvas, and a pixel the cube does not cover in this
\* frame has entry and exit alpha 0.
C6_MissIsTransparent ==
    (pc = "idle" /\ frameInfo.drawn)
    => /\ (entryPix.a < MissAlpha \/ exitPix.a < MissAlpha) => screenPix = Transparent
       /\ ~ray.hit => (entryPix.a = 0 /\ exitPix.a = 0)

\* C10: a domain cube is built only from sliceCount >= 2, slicesPerRow >= 1
\* and sliceWidth # 0, with finite positive extents.
C10_DegenerateRejected ==
    domainCube.built
    => /\ domainCube.slices >= 2
       /\ domainCube.slicesPerRow >= 1
       /\ domainCube.sliceWidth # 0
       /\ Finite(domainCube.cubeDimensions.h)
       /\ Finite(domainCube.cubeDimensions.d)

----------------------------------------------------------------------------
\* Properties of integrateVolume (SpecIntegrate).

\* C7 as claimed: alpha stays in [0, 1] and never decreases, and from
\* alpha >= 0.98 on the color and alpha no longer change.
C7_StopsAtCutoff ==
    /\ [](icolor.a \in 0 .. Scale)
    /\ [][ /\ icolor'.a >= icolor.a
           /\ icolor.a >= AlphaCutoff => icolor' = icolor ]_vars

\* C7 as amended: alpha stays in [0, 1] and never decreases, and from
\* alpha > 0.98 on the loop ends with the color and alpha unchanged.
C7_StopsAboveCutoff ==
    /\ [](icolor.a \in 0 .. Scale)
    /\ [][ /\ icolor'.a >= icolor.a
           /\ icolor.a > AlphaCutoff => (icolor' = icolor /\ ipc' = "done") ]_vars

\* The loop ended early, above the cutoff and before the end of the ray.
C7_Witness ==
    /\ ipc = "done"
    /\ icolor.a > AlphaCutoff
    /\ idepth <= ithickness

----------------------------------------------------------------------------
\* Properties of sampleVolume (SpecSample).

SliceTile(k, perRow) == <<k % perRow, k \div perRow>>

\* C8: with s = pos.z * (sliceCount - 1), an integral s returns the texel of
\* slice s alone, and s = k + 0.5 returns the mean of the texels of slices k
\* and k + 1.
C8_SliceBlend ==
    spc = "done" =>
      LET s == sArgs.z * (sArgs.uNumSlices - 1)
          k == s \div ZDen
          below == TexelAt(sArgs.texels, SliceTile(k, sArgs.uSlicesPerRow))
          above == TexelAt(sArgs.texels, SliceTile(k + 1, sArgs.uSlicesPerRow))
      IN  /\ s % ZDen = 0 => sOut.num = below * ZDen
          /\ 2 * (s % ZDen) = ZDen => 2 * sOut.num = (below + above) * ZDen

\* Slices 0 and 1 hold 0.2 and 0.8, s = 0.5, and the result is 0.5.
C8_Witness ==
    /\ spc = "done"
    /\ 2 * sArgs.z * (sArgs.uNumSlices - 1) = ZDen
    /\ TexelAt(sArgs.texels, sOut.belowTile) = 200
    /\ TexelAt(sArgs.texels, sOut.aboveTile) = 800
    /\ sOut.num = 500 * ZDen

\* C9: sliceBelow and sliceAbove lie in [0, sliceCount - 1] and their tile
\* origins in [0, slicesPerRow) x [0, ceil(sliceCount / slicesPerRow)).
C9_TilesInGrid ==
    spc = "done" =>
      LET rows == (sArgs.uNumSlices + sArgs.uSlicesPerRow - 1) \div sArgs.uSlicesPerRow
          InGrid(tile) == /\ tile[1] \in 0 .. sArgs.uSlicesPerRow - 1
                          /\ tile[2] \in 0 .. rows - 1
      IN  /\ sOut.sliceBelow \in 0 .. sArgs.uNumSlices - 1
          /\ sOut.sliceAbove \in 0 .. sArgs.uNumSlices - 1
          /\ InGrid(sOut.belowTile)
          /\ InGrid(sOut.aboveTile)

\* pos.z = 1 addresses the last slice, in the last row of the grid.
C9_Witness ==
    /\ spc = "done"
    /\ sArgs.z = ZDen
    /\ sOut.sliceAbove = sArgs.uNumSlices - 1
    /\ sOut.aboveTile[2] = (sArgs.uNumSlices - 1) \div sArgs.uSlicesPerRow
    /\ sArgs.uNumSlices % sArgs.uSlicesPerRow = 1

\* The addressing uniforms an onload callback computes for atlas v: the slice
\* count and slices per row of the call, and the slice size as a fraction of
\* the decoded image.
AddressingOf(v) ==
    [uNumSlices |-> v.args.slices,
     uSlicesPerRow |-> v.args.slicesPerRow,
     uSliceWidth |-> JsDiv(v.args.sliceWidth, v.width),
     uSliceHeight |-> JsDiv(v.args.sliceHeight, v.height)]

\* The addressing uniforms the volume program holds.
AddressingUniforms ==
    [uNumSlices |-> uniforms.uNumSlices,
     uSlicesPerRow |-> uniforms.uSlicesPerRow,
     uSliceWidth |-> uniforms.uSliceWidth,
     uSliceHeight |-> uniforms.uSliceHeight]

\* C11: in every frame whose integrate pass runs the volume program with the
\* atlas bound (isLoaded was true), uNumSlices, uSlicesPerRow, uSliceWidth and
\* uSliceHeight hold the values derived from the initVolumeGeometry arguments
\* and the loaded image size, whatever the order of initGL,
\* initVolumeGeometry, onload and draw() was.  It is stated for a renderer
\* with a single initVolumeGeometry call, where those values are unambiguous,
\* and read when draw() has just returned.
C11_AddressingUniformsSet ==
    ( /\ pc = "idle"
      /\ lastCall = "draw"
      /\ frameInfo.drawn
      /\ frameInfo.loaded
      /\ frameInfo.atlasBound
      /\ frameInfo.program = "volume"
      /\ Len(volumes) = 1 )
    => AddressingUniforms = AddressingOf(volumes[1])

=============================================================================
